---- MODULE Spec2Model ----
(***************************************************************************)
(* Allele annotation editor and sample loading of the electropherogram     *)
(* viewer (frontend/src/components/EnhancedElectropherogramViewer.js; the  *)
(* variant ElectropherogramViewer.jsx has the same editor and a single-    *)
(* fetch load).                                                            *)
(*                                                                         *)
(* JavaScript objects are modelled as functions whose domain is the set of *)
(* keys the object has: a key that is absent reads as undefined.           *)
(*                                                                         *)
(* The hook state of the component belongs to one mounted instance.  A     *)
(* request started by an instance carries that instance in its closure;   *)
(* the state setters it calls on completion address that instance only.   *)
(***************************************************************************)
EXTENDS Integers, FiniteSets, Sequences, TLC

\* ---------------------------------------------------------------- bounds
MaxLoads == 2       \* loads a run starts (mounts and sampleId changes)
MaxSaves == 2       \* PUTs a run sends
MaxEdits == 1       \* edits of a run of Spec and SpecDialog
SessionEdits == 3   \* edits of a run of SpecEdit

\* ------------------------------------------------------------ input sets
Samples == {"s1", "s2"}

\* catalog rows of the allele table (two of the STR_MARKERS entries)
STR_MARKERS == {"D3S1358", "vWA"}

AlleleNums == {1, 2}

\* what a user can leave in an allele text field
TypedValues == {"", "12"}

\* useState(50) of peakThreshold
InitialThreshold == 50

\* the empty object  {}
EmptyObj == [k \in {} |-> k]

\* analysis.alleles as delivered for sample s1; AMEL is a locus the service
\* reports that is not a row of the catalog
AllelesS1 ==
    ("D3S1358" :> [allele1 |-> "12", allele2 |-> "14",
                   peaks |-> <<[position |-> 2]>>])
    @@ ("AMEL" :> [allele1 |-> "X", peaks |-> <<[position |-> 4]>>])

\* Object.entries of an alleles object: the keys in the order of the JSON
LocusOrder == <<"D3S1358", "vWA", "AMEL">>

\* data.analysis of GET /api/samples/{id}: the sample it describes and,
\* when the service reports any, its allele calls (s2 has none)
Analyses(s) ==
    IF s = "s1"
    THEN {[sample |-> s, alleles |-> AllelesS1]}
    ELSE {[sample |-> s]}

\* STR_MARKERS[m]: the key `channel_${channel}`, the colour and the
\* expected size range of a catalog marker
MarkerInfo(m) ==
    IF m = "D3S1358"
    THEN [channelKey |-> "channel_1", color |-> "#1565C0",
          range |-> <<100, 150>>]
    ELSE [channelKey |-> "channel_1", color |-> "#1565C0",
          range |-> <<150, 200>>]

\* values of the threshold slider (min 0, max 500, step 10)
Thresholds == {0, 10, 50, 60}

\* the v a click on the exclusive raw/analyzed button group passes to
\* onChange: the button's value, or null for the button that was selected
ToggleValues == {"raw", "analyzed", "null"}

\* signal arrays of the two dye channels that carry data
RawOf(k) == IF k = "channel_1" THEN <<0, 5, 50, 5, 0>> ELSE <<0, 30, 0>>

AnalyzedOf(k) == IF k = "channel_1" THEN <<0, 4, 48, 4, 0>> ELSE <<0, 28, 0>>

\* channel metadata of GET /api/samples/{id}: channel_2 reports no data,
\* channel_4 is the dye of the size standard
InfoOf(k) ==
    CASE k = "channel_1" ->
           [color |-> "#1565C0", has_raw_data |-> TRUE,
            has_analyzed_data |-> TRUE]
      [] k = "channel_2" ->
           [color |-> "#2E7D32", has_raw_data |-> FALSE,
            has_analyzed_data |-> FALSE]
      [] OTHER ->
           [color |-> "#FF0000", has_raw_data |-> TRUE,
            has_analyzed_data |-> FALSE]

\* an object whose key order matters is a sequence of entries
Entry(k, v) == [key |-> k, val |-> v]

\* data.analysis of a sample that was analysed: three channels, detected
\* peaks of two of them (the second of channel_4 lies off its signal
\* array), the allele calls and the calibrated size standard: three peaks
\* (size in tenths of a base pair where the service resolved one) and one
\* expected size
AnalysisFull ==
    [sample |-> "s1",
     alleles |-> AllelesS1,
     channels |-> <<Entry("channel_1", InfoOf("channel_1")),
                    Entry("channel_2", InfoOf("channel_2")),
                    Entry("channel_4", InfoOf("channel_4"))>>,
     peaks |-> ("channel_1" :> <<[position |-> 2, height |-> 50],
                                 [position |-> 4, height |-> 10]>>)
               @@ ("channel_4" :> <<[position |-> 1, height |-> 60],
                                    [position |-> 7, height |-> 60]>>),
     size_standard |->
       [peaks |-> <<[position |-> 1, height |-> 30],
                    [position |-> 2, height |-> 20, size |-> 500],
                    [position |-> 0, height |-> 20]>>,
        expected_sizes |-> <<35>>,
        calibration |-> [slope |-> 1]]]

\* the same analysis of a run whose two dye channels are blue and green
AnalysisTwoDyes ==
    [AnalysisFull EXCEPT
       !.channels = <<Entry("channel_1", InfoOf("channel_1")),
                      Entry("channel_2", InfoOf("channel_2"))>>]

\* bodies of a 2xx GET /api/samples/{id}: with an analysis (with or
\* without channels) or without one
MetadataBodies ==
    {[analysis |-> a] :
        a \in Analyses("s1") \cup {AnalysisFull, AnalysisTwoDyes}}
    \cup {[id |-> "s1"]}

\* bodies of a 2xx GET .../raw_data: no channels key, an empty channels
\* object, channels with raw data only, channels with both arrays
BulkBodies ==
    {[sample_id |-> "s1"],
     [channels |-> <<>>],
     [channels |->
        <<Entry("channel_1", [info |-> InfoOf("channel_1"),
                              raw_data |-> RawOf("channel_1")]),
          Entry("channel_4", [info |-> InfoOf("channel_4"),
                              raw_data |-> RawOf("channel_4")])>>],
     [channels |->
        <<Entry("channel_1", [info |-> InfoOf("channel_1"),
                              raw_data |-> RawOf("channel_1"),
                              analyzed_data |-> AnalyzedOf("channel_1")]),
          Entry("channel_4", [info |-> InfoOf("channel_4"),
                              raw_data |-> RawOf("channel_4"),
                              analyzed_data |-> AnalyzedOf("channel_4")])>>]}

\* bodies of a 2xx GET .../channel/{k}: no arrays, raw only, both
ChannelBodies(k) ==
    {[channel |-> k],
     [raw_data |-> RawOf(k)],
     [raw_data |-> RawOf(k), analyzed_data |-> AnalyzedOf(k)]}

\* a response: rejected (non-2xx status or a thrown fetch) or 2xx
Responses(bodies) ==
    {[ok |-> FALSE]} \cup {[ok |-> TRUE, body |-> b] : b \in bodies}

\* ------------------------------------------------------------- the state
VARIABLES
    mounted,         \* a viewer instance is on screen
    inst,            \* identity of the current (or last) instance
    sampleId,        \* the sampleId prop ("" while nothing is mounted)
    sampleData,      \* useState(null): [loaded |-> FALSE] is null
    loading,
    error,           \* "" is null
    editMode,
    editedAlleles,
    unsavedChanges,
    loads,           \* loadData calls awaiting their response
    saves,           \* PUT requests awaiting their response
    loadsLeft,       \* loads the run may still start
    savesLeft,       \* PUTs the run may still send
    editsLeft,       \* handleAlleleChange calls the run may still make
    emitted,         \* failure notices the step just taken showed the user
    raised,          \* the handler call just made threw
    lastSaved,       \* body of the last PUT accepted for this instance
    cleanSave,       \* the PUT since whose request the user did nothing
    bufferOf,        \* the sample whose load the buffer was taken from
    roundTrip,       \* progress of  set(m,1,"12") ; set(m,1,"")
    lastOp,          \* the step just taken
    selectedChannel, \* 'all' or a channel key
    selectedMarker,  \* '' or a catalog marker
    showPeaks,
    showSizeStandard,
    showRawData,
    showAnalyzedData,
    showAlleles,
    peakThreshold,
    traces,          \* what prepareTraces() gave the last render
    zoomRegion,      \* useState(null): an x range the user zoomed to
    layout,          \* what getLayout() gave the last render
    pc,              \* the await a stepwise loadData is suspended at
    data,            \* loadData: the parsed metadata body
    channelsWithData,\* loadData: the channels assembled so far
    cursor,          \* loadData: entry of data.analysis.channels in turn
    fetchLog         \* the requests loadData has issued, in order

vars == <<mounted, inst, sampleId, sampleData, loading, error, editMode,
          editedAlleles, unsavedChanges, loads, saves, loadsLeft,
          savesLeft, editsLeft, emitted, raised, lastSaved, cleanSave, bufferOf,
          roundTrip, lastOp, selectedChannel, selectedMarker, showPeaks,
          showSizeStandard, showRawData, showAnalyzedData, showAlleles,
          peakThreshold, traces, zoomRegion, layout, pc, data,
          channelsWithData, cursor, fetchLog>>

viewState == <<sampleData, loading, error, editMode, editedAlleles,
               unsavedChanges>>

\* the display controls of the electropherogram tab
viewFlags == <<selectedChannel, selectedMarker, showPeaks, showSizeStandard,
               showRawData, showAnalyzedData, showAlleles, peakThreshold,
               zoomRegion>>

\* the locals of a stepwise loadData
loadLocals == <<pc, data, channelsWithData, cursor, fetchLog>>

\* the plot and the stepwise load: the runs of the allele editor take
\* their loads in one step and their payloads carry no channels, so
\* prepareTraces() returns [] in every render of theirs; they select no
\* marker and leave the x axis out
plotVars == <<viewFlags, traces, layout, loadLocals>>

NullData == [loaded |-> FALSE]

NoSave == [sent |-> FALSE]

Op(name) == [op |-> name, marker |-> "", slot |-> 0, value |-> ""]

\* ------------------------------------------------------ pure expressions

\* x || {}  for an optional object field
AllelesOrEmpty(obj) ==
    IF "alleles" \in DOMAIN obj THEN obj.alleles ELSE EmptyObj

\* a cancel that clears the buffer instead of restoring it
BaselineCleared(sd) == EmptyObj

\* sampleData.alleles || {}
Baseline(sd) == IF sd.loaded THEN AllelesOrEmpty(sd.data) ELSE EmptyObj

\* editedAlleles[marker] || {}
AlleleData(buf, m) == IF m \in DOMAIN buf THEN buf[m] ELSE EmptyObj

SlotKey(n) == IF n = 1 THEN "allele1" ELSE "allele2"

\* JavaScript truthiness of an allele field: undefined and '' are falsy
Truthy(obj, k) == k \in DOMAIN obj /\ obj[k] # ""

\* locus rows rendered from the buffer: the three-way status chip
StatusOr(buf, m) ==
    LET alleleData == AlleleData(buf, m) IN
    IF Truthy(alleleData, "allele1") \/ Truthy(alleleData, "allele2")
    THEN "Completo"
    ELSE "Sin llamar"

Status(buf, m) ==
    LET alleleData == AlleleData(buf, m) IN
    IF Truthy(alleleData, "allele1") /\ Truthy(alleleData, "allele2")
    THEN "Completo"
    ELSE IF Truthy(alleleData, "allele1") \/ Truthy(alleleData, "allele2")
         THEN "Parcial"
         ELSE "Sin llamar"

\* { ...obj, [k]: v }
Spread(obj, k, v) ==
    [x \in (DOMAIN obj) \cup {k} |-> IF x = k THEN v ELSE obj[x]]

\* a handleAlleleChange that forgets  ...prev[marker]
SetAlleleNoInnerSpread(prev, m, n, v) ==
    Spread(prev, m, Spread(EmptyObj, SlotKey(n), v))

\* the updater handleAlleleChange passes to setEditedAlleles
SetAllele(prev, m, n, v) ==
    Spread(prev, m, Spread(AlleleData(prev, m), SlotKey(n), v))

\* a handleAlleleChange that assigns into prev[marker]: the object is the
\* one the sample model holds, so the baseline changes with the buffer
BaselineWrittenThrough(sd, m, n, v) ==
    IF sd.loaded /\ "alleles" \in DOMAIN sd.data
    THEN [sd EXCEPT !.data.alleles = SetAllele(@, m, n, v)]
    ELSE sd

\* the updater of handleAlleleChange copies prev and prev[marker] with
\* spreads and assigns into the copies: the object setSampleData and
\* setEditedAlleles were both given is left as it was
BaselineAfterEdit(sd, m, n, v) == sd

\* a PUT body of the rows of the allele table only
PutBodyCatalogRows(buf) ==
    [m \in (DOMAIN buf) \cap STR_MARKERS |-> buf[m]]

\* JSON.stringify(editedAlleles): every key of the buffer and, under it,
\* every key of its entry
PutBody(buf) ==
    [m \in DOMAIN buf |-> [k \in DOMAIN buf[m] |-> buf[m][k]]]

\* a request whose completion would reach whatever instance is on screen
LiveAnyInstance(r) == mounted

\* the setters a request calls on completion are those of the instance
\* that started it; they act only while that instance is the mounted one
Live(r) == mounted /\ r.inst = inst

\* loading spinner and error alert replace the whole view
Visible == mounted /\ ~loading /\ error = ""

\* ---------------------------------------------- loadData, expressions

\* obj[k] is truthy, for a key that holds an object or an array if present
Has(obj, k) == k \in DOMAIN obj

\* obj[k] || []
OrEmptyArray(obj, k) == IF k \in DOMAIN obj THEN obj[k] ELSE <<>>

\* { ...info, raw_data: cd.raw_data || [],
\*   analyzed_data: cd.analyzed_data || [] }
AssembleChannel(info, cd) ==
    [raw_data |-> OrEmptyArray(cd, "raw_data"),
     analyzed_data |-> OrEmptyArray(cd, "analyzed_data")] @@ info

\* ...channelData.info : an absent info spreads as nothing
BulkInfo(cd) == IF "info" \in DOMAIN cd THEN cd.info ELSE EmptyObj

HasKey(entries, k) == \E i \in DOMAIN entries : entries[i].key = k

\* obj[k], for a key obj has
Get(entries, k) ==
    entries[CHOOSE i \in DOMAIN entries : entries[i].key = k].val

\* obj[k] = v : a new key goes last, a key obj has keeps its place
Put(entries, k, v) ==
    IF HasKey(entries, k)
    THEN [i \in DOMAIN entries |->
            IF entries[i].key = k THEN Entry(k, v) ELSE entries[i]]
    ELSE Append(entries, Entry(k, v))

\* channelsWithData after the loop over rawData.channels
FromBulk(body) ==
    IF "channels" \in DOMAIN body
    THEN [i \in DOMAIN body.channels |->
            Entry(body.channels[i].key,
                  AssembleChannel(BulkInfo(body.channels[i].val),
                                  body.channels[i].val))]
    ELSE <<>>

\* info[k] is truthy, for a boolean key
Flag(info, k) == k \in DOMAIN info /\ info[k]

\* a loop that fetches every channel of the metadata
NeedsFetchAlways(info) == TRUE

\* channelInfo.has_raw_data || channelInfo.has_analyzed_data
NeedsFetch(info) ==
    Flag(info, "has_raw_data") \/ Flag(info, "has_analyzed_data")

\* data.analysis?.channels, an absent one read as no entries
MetaChannels(d) ==
    IF "analysis" \in DOMAIN d /\ "channels" \in DOMAIN d.analysis
    THEN d.analysis.channels
    ELSE <<>>

\* the per-channel loop from entry i up to its next await: channels that
\* need no fetch are copied; cursor is the entry whose fetch is awaited,
\* 0 when the loop is over
RECURSIVE Advance(_, _, _)
Advance(entries, cwd, i) ==
    IF i > Len(entries)
    THEN [cwd |-> cwd, cursor |-> 0]
    ELSE IF NeedsFetch(entries[i].val)
         THEN [cwd |-> cwd, cursor |-> i]
         ELSE Advance(entries, Put(cwd, entries[i].key, entries[i].val),
                      i + 1)

\* a request as it is issued
Req(kind, k) == [req |-> kind, key |-> k, outcome |-> "pending", yield |-> 0]

\* the log once its last request is answered; yield counts the channels
\* the answer put into channelsWithData
Answered(log, outcome, yield) ==
    [log EXCEPT ![Len(log)] = [@ EXCEPT !.outcome = outcome,
                                        !.yield = yield]]

\* ------------------------------------------ prepareTraces, expressions

\* Array.from({ length: data.length }, (_, i) => i)
Indices(arr) == [i \in DOMAIN arr |-> i - 1]

\* data[position] || 0 : arrays start at 0, an index off the array reads
\* undefined
At(arr, pos) == IF pos + 1 \in DOMAIN arr THEN arr[pos + 1] ELSE 0

\* data[p.position] of ElectropherogramViewer.jsx, which has no  || 0 :
\* a number, or undefined for an index off the array
VariantAt(arr, pos) ==
    IF pos + 1 \in DOMAIN arr
    THEN [defined |-> TRUE, value |-> arr[pos + 1]]
    ELSE [defined |-> FALSE, value |-> 0]

\* channelData.raw_data || channelData.analyzed_data is truthy: an array,
\* empty or not, is
HasSignal(cd) == Has(cd, "analyzed_data") \/ Has(cd, "raw_data")

\* channelData.analyzed_data || channelData.raw_data
Signal(cd) ==
    IF Has(cd, "analyzed_data") THEN cd.analyzed_data
    ELSE IF Has(cd, "raw_data") THEN cd.raw_data
    ELSE <<>>

Layer(kind, k, xs, ys, text) ==
    [kind |-> kind, key |-> k, x |-> xs, y |-> ys, text |-> text]

\* the two line traces of a channel carry  visible: true
SignalLayer(kind, k, arr) ==
    [visible |-> TRUE] @@ Layer(kind, k, Indices(arr), arr, <<>>)

\* a filter that keeps the peaks up to the threshold
PassesBelow(p, t) == p.height <= t

\* p.height >= peakThreshold
Passes(p, t) == p.height >= t

FilterPeaks(peaks, t) == SelectSeq(peaks, LAMBDA p : Passes(p, t))

\* sampleData.peaks?.[channelKey]
HasPeaks(sd, k) == Has(sd, "peaks") /\ k \in DOMAIN sd.peaks

\* markers at the positions of peaks, their y read off arr; the text of a
\* point is led by the peak's height
MarkerLayer(kind, k, peaks, arr) ==
    Layer(kind, k,
          [i \in DOMAIN peaks |-> peaks[i].position],
          [i \in DOMAIN peaks |-> At(arr, peaks[i].position)],
          [i \in DOMAIN peaks |->
             IF Has(peaks[i], "height") THEN peaks[i].height ELSE 0])

\* the body of the forEach over the channels
ChannelLayers(sd, v, e) ==
    LET cd == e.val
        raw ==
          IF v.showRawData /\ Has(cd, "raw_data") /\ Len(cd.raw_data) > 0
          THEN <<SignalLayer("raw", e.key, cd.raw_data)>>
          ELSE <<>>
        analyzed ==
          IF v.showAnalyzedData /\ Has(cd, "analyzed_data")
          THEN <<SignalLayer("analyzed", e.key, cd.analyzed_data)>>
          ELSE <<>>
        peaks ==
          IF /\ v.showPeaks
             /\ HasPeaks(sd, e.key)
             /\ HasSignal(cd)
             /\ Len(Signal(cd)) > 0
          THEN <<MarkerLayer("peaks", e.key,
                            FilterPeaks(sd.peaks[e.key], v.peakThreshold),
                            Signal(cd))>>
          ELSE <<>>
    IN  IF v.selectedChannel # "all" /\ v.selectedChannel # e.key
        THEN <<>>
        ELSE raw \o analyzed \o peaks

RECURSIVE AllChannelLayers(_, _, _)
AllChannelLayers(sd, v, i) ==
    IF i > Len(sd.channels)
    THEN <<>>
    ELSE ChannelLayers(sd, v, sd.channels[i])
         \o AllChannelLayers(sd, v, i + 1)

\* the channel of the size standard
IsLiz(e) ==
    \/ (Has(e.val, "color") /\ e.val.color = "#FF0000")
    \/ e.key \in {"channel_4", "channel_5"}

\* n.toFixed(1), n held in tenths
ToFixed1(tenths) == ToString(tenths \div 10) \o "." \o ToString(tenths % 10)

\* the text of point i of the size-standard layer: the expected size at
\* that index if it is truthy, else the peak's own size, else '?'
LizText(ss, i) ==
    LET expectedSizes ==
          IF Has(ss, "expected_sizes") THEN ss.expected_sizes ELSE <<>>
        p == ss.peaks[i]
    IN  IF i \in DOMAIN expectedSizes /\ expectedSizes[i] # 0
        THEN ToString(expectedSizes[i]) \o " bp"
        ELSE IF Has(p, "size")
        THEN ToFixed1(p.size) \o " bp"
        ELSE "? bp"

LizLayers(sd, v) ==
    LET liz == {i \in DOMAIN sd.channels : IsLiz(sd.channels[i])}
    IN  IF /\ v.showSizeStandard
           /\ Has(sd, "size_standard")
           /\ Has(sd.size_standard, "peaks")
           /\ liz # {}
        THEN LET e == sd.channels[CHOOSE i \in liz : \A j \in liz : i <= j]
             IN  IF HasSignal(e.val)
                 THEN LET peaks == sd.size_standard.peaks
                      IN  <<Layer("liz", e.key,
                                  [i \in DOMAIN peaks |-> peaks[i].position],
                                  [i \in DOMAIN peaks |->
                                     At(Signal(e.val), peaks[i].position)],
                                  [i \in DOMAIN peaks |->
                                     LizText(sd.size_standard, i)])>>
                 ELSE <<>>
        ELSE <<>>

\* the body of the forEach over the loci
AlleleLayer(sd, locus) ==
    LET alleleData == sd.alleles[locus]
        own == locus \in STR_MARKERS
               /\ HasKey(sd.channels, MarkerInfo(locus).channelKey)
        avail == {i \in DOMAIN sd.channels : HasSignal(sd.channels[i].val)}
    IN  IF ~Has(alleleData, "peaks") \/ Len(alleleData.peaks) = 0
        THEN <<>>
        ELSE IF ~own /\ avail = {}
        THEN <<>>
        ELSE LET cd ==
                   IF own
                   THEN Get(sd.channels, MarkerInfo(locus).channelKey)
                   ELSE sd.channels[CHOOSE i \in avail :
                                      \A j \in avail : i <= j].val
             IN  IF Len(Signal(cd)) = 0
                 THEN <<>>
                 ELSE <<MarkerLayer("alleles", locus, alleleData.peaks,
                                    Signal(cd))>>

RECURSIVE AlleleLayersFrom(_, _)
AlleleLayersFrom(sd, i) ==
    IF i > Len(LocusOrder)
    THEN <<>>
    ELSE (IF LocusOrder[i] \in DOMAIN sd.alleles
          THEN AlleleLayer(sd, LocusOrder[i])
          ELSE <<>>)
         \o AlleleLayersFrom(sd, i + 1)

AlleleLayers(sd, v) ==
    IF v.showAlleles /\ Has(sd, "alleles")
    THEN AlleleLayersFrom(sd, 1)
    ELSE <<>>

\* a number of the plot, exact to a tenth, or -Infinity
NegInfinity == [inf |-> TRUE, tenths |-> 0]

Finite(n) == [inf |-> FALSE, tenths |-> 10 * n]

\* Math.max(...traces.filter(t => t.y).flatMap(t => t.y)) : the maximum
\* of no numbers is -Infinity
MaxY(ts) ==
    LET ys == UNION {{ts[j].y[i] : i \in DOMAIN ts[j].y} : j \in DOMAIN ts}
    IN  IF ys = {}
        THEN NegInfinity
        ELSE Finite(CHOOSE m \in ys : \A y \in ys : y <= m)

\* maxY * 1.1
Times11(n) ==
    IF n.inf THEN n ELSE [inf |-> FALSE, tenths |-> (n.tenths * 11) \div 10]

RegionLayers(ts, v) ==
    IF v.selectedMarker # "" /\ v.selectedMarker \in STR_MARKERS
    THEN LET range == MarkerInfo(v.selectedMarker).range
             top == Times11(MaxY(ts))
         IN  <<[showlegend |-> FALSE, hoverinfo |-> "skip"]
               @@ Layer("region", v.selectedMarker,
                        <<range[1], range[1], range[2], range[2]>>,
                        <<Finite(0), top, top, Finite(0)>>, <<>>)>>
    ELSE <<>>

prepareTraces(sd, v) ==
    IF ~Has(sd, "channels")
    THEN <<>>
    ELSE LET ts == AllChannelLayers(sd, v, 1) \o LizLayers(sd, v)
                   \o AlleleLayers(sd, v)
         IN  ts \o RegionLayers(ts, v)

\* the render: the spinner and the alert replace the whole view, and the
\* plot is drawn from prepareTraces() once sampleData is set
Render(sd, isLoading, err, v) ==
    IF isLoading \/ err # "" \/ ~sd.loaded
    THEN <<>>
    ELSE prepareTraces(sd.data, v)

\* an x range: null and undefined (Plotly chooses the range) are NoRange
NoRange == [set |-> FALSE, lo |-> 0, hi |-> 0]

Range(lo, hi) == [set |-> TRUE, lo |-> lo, hi |-> hi]

\* the x axis before the plot is drawn
NoLayout == [xTitle |-> "", xRange |-> NoRange]

\* sampleData?.size_standard?.calibration is truthy
HasCalibration(sd) ==
    Has(sd, "size_standard") /\ Has(sd.size_standard, "calibration")

\* a getLayout() in which the zoom override goes before the marker
getLayoutZoomFirst(sd, v) ==
    IF v.zoomRegion.set
    THEN [xTitle |-> "Posición (scans)", xRange |-> v.zoomRegion]
    ELSE IF HasCalibration(sd) /\ v.selectedMarker \in STR_MARKERS
    THEN [xTitle |-> "Tamaño (bp)",
          xRange |-> Range(MarkerInfo(v.selectedMarker).range[1] - 20,
                           MarkerInfo(v.selectedMarker).range[2] + 20)]
    ELSE [xTitle |-> "Posición (scans)", xRange |-> NoRange]

\* title and range of the x axis
getLayout(sd, v) ==
    IF /\ HasCalibration(sd)
       /\ v.selectedMarker # ""
       /\ v.selectedMarker \in STR_MARKERS
    THEN [xTitle |-> "Tamaño (bp)",
          xRange |-> Range(MarkerInfo(v.selectedMarker).range[1] - 20,
                           MarkerInfo(v.selectedMarker).range[2] + 20)]
    ELSE IF v.zoomRegion.set
    THEN [xTitle |-> "Posición (scans)", xRange |-> v.zoomRegion]
    ELSE [xTitle |-> "Posición (scans)", xRange |-> NoRange]

\* the x axis of the render: the plot is drawn once sampleData is set
RenderLayout(sd, isLoading, err, v) ==
    IF isLoading \/ err # "" \/ ~sd.loaded
    THEN NoLayout
    ELSE getLayout(sd.data, v)

\* ---------------------------------------------------------------- Init
Start(maxLoads, maxSaves, maxEdits) ==
    /\ mounted = FALSE
    /\ inst = 0
    /\ sampleId = ""
    /\ sampleData = NullData
    /\ loading = TRUE
    /\ error = ""
    /\ editMode = FALSE
    /\ editedAlleles = EmptyObj
    /\ unsavedChanges = FALSE
    /\ loads = {}
    /\ saves = {}
    /\ loadsLeft = maxLoads
    /\ savesLeft = maxSaves
    /\ editsLeft = maxEdits
    /\ emitted = 0
    /\ raised = FALSE
    /\ lastSaved = NoSave
    /\ cleanSave = 0
    /\ bufferOf = ""
    /\ roundTrip = 0
    /\ lastOp = Op("init")
    /\ selectedChannel = "all"
    /\ selectedMarker = ""
    /\ showPeaks = TRUE
    /\ showSizeStandard = TRUE
    /\ showRawData = TRUE
    /\ showAnalyzedData = FALSE
    /\ showAlleles = TRUE
    /\ peakThreshold = InitialThreshold
    /\ traces = <<>>
    /\ zoomRegion = NoRange
    /\ layout = NoLayout
    /\ pc = "idle"
    /\ data = EmptyObj
    /\ channelsWithData = <<>>
    /\ cursor = 0
    /\ fetchLog = <<>>

\* nothing is mounted yet
Init == Start(MaxLoads, MaxSaves, MaxEdits)

\* the hook state of an instance that has just been created (lines 83-102)
FreshState ==
    /\ sampleData' = NullData
    /\ loading' = TRUE
    /\ error' = ""
    /\ editMode' = FALSE
    /\ editedAlleles' = EmptyObj
    /\ unsavedChanges' = FALSE

\* what every step that is no throwing handler and shows no notice leaves
Quiet == emitted' = 0 /\ raised' = FALSE

\* ------------------------------------------------------------- actions

\* the parent renders the viewer for sample s: fresh hook state, and the
\* effect starts loadData (setLoading(true); setError(null); fetch)
Mount(s) ==
    /\ UNCHANGED plotVars
    /\ ~mounted
    /\ loadsLeft > 0
    /\ mounted' = TRUE
    /\ inst' = inst + 1
    /\ sampleId' = s
    /\ FreshState
    /\ loadsLeft' = loadsLeft - 1
    /\ loads' = loads \cup
                  {[id |-> loadsLeft, inst |-> inst + 1, sample |-> s]}
    /\ Quiet
    /\ lastSaved' = NoSave
    /\ cleanSave' = 0
    /\ bufferOf' = ""
    /\ roundTrip' = 0
    /\ lastOp' = Op("mount")
    /\ UNCHANGED <<saves, savesLeft, editsLeft>>

\* the sampleId prop of the mounted viewer changes: the effect runs again
ChangeSample(s) ==
    /\ UNCHANGED plotVars
    /\ mounted
    /\ s # sampleId
    /\ loadsLeft > 0
    /\ sampleId' = s
    /\ loading' = TRUE
    /\ error' = ""
    /\ loadsLeft' = loadsLeft - 1
    /\ loads' = loads \cup {[id |-> loadsLeft, inst |-> inst, sample |-> s]}
    /\ Quiet
    /\ cleanSave' = 0
    /\ roundTrip' = 0
    /\ lastOp' = Op("changeSample")
    /\ UNCHANGED <<mounted, inst, sampleData, editMode, editedAlleles,
                   unsavedChanges, saves, savesLeft, editsLeft, lastSaved,
                   bufferOf>>

\* handleCloseViewer: the dialog closes and the viewer is unmounted: its
\* hook state is gone, the requests it started stay in flight
Unmount ==
    /\ UNCHANGED plotVars
    /\ mounted
    /\ mounted' = FALSE
    /\ sampleId' = ""
    /\ FreshState
    /\ Quiet
    /\ lastSaved' = NoSave
    /\ cleanSave' = 0
    /\ bufferOf' = ""
    /\ roundTrip' = 0
    /\ lastOp' = Op("unmount")
    /\ UNCHANGED <<inst, loads, saves, loadsLeft, savesLeft, editsLeft>>

\* loadData runs to its end with a 2xx metadata response carrying analysis
\* a:  setSampleData(data.analysis); setEditedAlleles(alleles || {});
\* finally setLoading(false)
LoadOk(l, a) ==
    /\ UNCHANGED plotVars
    /\ l \in loads
    /\ loads' = loads \ {l}
    /\ IF Live(l)
       THEN /\ sampleData' = [loaded |-> TRUE, data |-> a]
            /\ editedAlleles' = AllelesOrEmpty(a)
            /\ loading' = FALSE
            /\ lastSaved' = NoSave
            /\ bufferOf' = l.sample
            /\ UNCHANGED <<error, editMode, unsavedChanges>>
       ELSE UNCHANGED <<viewState, lastSaved, bufferOf>>
    /\ Quiet
    /\ roundTrip' = 0
    /\ lastOp' = Op("loadOk")
    /\ UNCHANGED <<mounted, inst, sampleId, saves, loadsLeft, savesLeft,
                   editsLeft,
                   cleanSave>>

\* the metadata fetch is rejected or throws:  setError(err.message);
\* finally setLoading(false); the alert replaces the view
LoadFail(l) ==
    /\ UNCHANGED plotVars
    /\ l \in loads
    /\ loads' = loads \ {l}
    /\ IF Live(l)
       THEN /\ error' = "Error cargando datos"
            /\ loading' = FALSE
            /\ emitted' = 1
            /\ UNCHANGED <<sampleData, editMode, editedAlleles, unsavedChanges>>
       ELSE /\ emitted' = 0
            /\ UNCHANGED viewState
    /\ raised' = FALSE
    /\ roundTrip' = 0
    /\ lastOp' = Op("loadFail")
    /\ UNCHANGED <<mounted, inst, sampleId, saves, loadsLeft, savesLeft,
                   editsLeft,
                   lastSaved, cleanSave, bufferOf>>

\* a 2xx metadata response without an analysis object:
\* setSampleData(undefined), then data.analysis.alleles throws and the
\* catch runs setError; finally setLoading(false)
LoadNoAnalysis(l) ==
    /\ UNCHANGED plotVars
    /\ l \in loads
    /\ loads' = loads \ {l}
    /\ IF Live(l)
       THEN /\ sampleData' = NullData
            /\ error' = "Cannot read properties of undefined"
            /\ loading' = FALSE
            /\ emitted' = 1
            /\ UNCHANGED <<editMode, editedAlleles, unsavedChanges>>
       ELSE /\ emitted' = 0
            /\ UNCHANGED viewState
    /\ raised' = FALSE
    /\ roundTrip' = 0
    /\ lastOp' = Op("loadNoAnalysis")
    /\ UNCHANGED <<mounted, inst, sampleId, saves, loadsLeft, savesLeft,
                   editsLeft, lastSaved, cleanSave, bufferOf>>

\* "Editar Alelos"
EditStart ==
    /\ UNCHANGED plotVars
    /\ Visible
    /\ ~editMode
    /\ editMode' = TRUE
    /\ Quiet
    /\ cleanSave' = 0
    /\ roundTrip' = 0
    /\ lastOp' = Op("editStart")
    /\ UNCHANGED <<mounted, inst, sampleId, sampleData, loading, error,
                   editedAlleles, unsavedChanges, loads, saves, loadsLeft,
                   savesLeft, editsLeft, lastSaved, bufferOf>>

\* "Cancelar":  setEditMode(false); setEditedAlleles(sampleData.alleles || {})
Cancel ==
    /\ UNCHANGED plotVars
    /\ Visible
    /\ editMode
    /\ editMode' = FALSE
    /\ editedAlleles' = Baseline(sampleData)
    /\ Quiet
    /\ cleanSave' = 0
    /\ bufferOf' = IF sampleData.loaded THEN sampleData.data.sample ELSE ""
    /\ roundTrip' = 0
    /\ lastOp' = Op("cancel")
    /\ UNCHANGED <<mounted, inst, sampleId, sampleData, loading, error,
                   unsavedChanges, loads, saves, loadsLeft, savesLeft,
                   editsLeft, lastSaved>>

\* onChange of an allele text field, rendered for catalog rows in edit mode
HandleAlleleChange(m, n, v) ==
    /\ UNCHANGED plotVars
    /\ Visible
    /\ editMode
    /\ editsLeft > 0
    /\ editsLeft' = editsLeft - 1
    /\ editedAlleles' = SetAllele(editedAlleles, m, n, v)
    /\ unsavedChanges' = TRUE
    /\ Quiet
    /\ cleanSave' = 0
    /\ roundTrip' = IF n = 1 /\ v = "12" THEN 1
                    ELSE IF /\ n = 1 /\ v = "" /\ roundTrip = 1
                            /\ lastOp.marker = m
                         THEN 2 ELSE 0
    /\ lastOp' = [op |-> "handleAlleleChange", marker |-> m, slot |-> n,
                  value |-> v]
    /\ sampleData' = BaselineAfterEdit(sampleData, m, n, v)
    /\ UNCHANGED <<mounted, inst, sampleId, loading, error,
                   editMode, loads, saves, loadsLeft, savesLeft, lastSaved,
                   bufferOf>>

\* "Guardar": handleSaveAlleles up to its await: the PUT leaves with the
\* sampleId and the buffer of this render
HandleSaveAlleles ==
    /\ UNCHANGED plotVars
    /\ Visible
    /\ editMode
    /\ savesLeft > 0
    /\ savesLeft' = savesLeft - 1
    /\ saves' = saves \cup {[id |-> savesLeft, inst |-> inst,
                             sample |-> sampleId,
                             body |-> PutBody(editedAlleles)]}
    /\ Quiet
    /\ cleanSave' = savesLeft
    /\ roundTrip' = 0
    /\ lastOp' = Op("handleSaveAlleles")
    /\ UNCHANGED <<mounted, inst, sampleId, viewState, loads, loadsLeft,
                   editsLeft,
                   lastSaved, bufferOf>>

\* response.ok:  setEditMode(false); setUnsavedChanges(false); onUpdate()
SaveOk(s) ==
    /\ UNCHANGED plotVars
    /\ s \in saves
    /\ saves' = saves \ {s}
    /\ IF Live(s)
       THEN /\ editMode' = FALSE
            /\ unsavedChanges' = FALSE
            /\ lastSaved' = [sent |-> TRUE, body |-> s.body]
            /\ UNCHANGED <<sampleData, loading, error, editedAlleles>>
       ELSE UNCHANGED <<viewState, lastSaved>>
    /\ Quiet
    /\ cleanSave' = IF cleanSave = s.id THEN 0 ELSE cleanSave
    /\ roundTrip' = 0
    /\ lastOp' = Op("saveOk")
    /\ UNCHANGED <<mounted, inst, sampleId, loads, loadsLeft, savesLeft,
                   editsLeft, bufferOf>>

\* the PUT is rejected: on a non-2xx response the if is skipped, on a
\* thrown fetch the catch writes to the console; neither calls a setter
SaveFail(s) ==
    /\ UNCHANGED plotVars
    /\ s \in saves
    /\ saves' = saves \ {s}
    /\ Quiet
    /\ cleanSave' = IF cleanSave = s.id THEN 0 ELSE cleanSave
    /\ roundTrip' = 0
    /\ lastOp' = Op("saveFail")
    /\ UNCHANGED <<mounted, inst, sampleId, viewState, loads, loadsLeft,
                   savesLeft,
                   editsLeft, lastSaved, bufferOf>>

\* ------------------------------------------- loadData, await by await

\* what a step of loadData leaves alone
loadFrame == <<mounted, inst, sampleId, editMode, unsavedChanges, loads,
               saves, loadsLeft, savesLeft, editsLeft, raised, lastSaved,
               cleanSave, roundTrip, viewFlags>>

\* the display controls as prepareTraces reads them
View ==
    [selectedChannel |-> selectedChannel,
     selectedMarker |-> selectedMarker,
     showPeaks |-> showPeaks,
     showSizeStandard |-> showSizeStandard,
     showRawData |-> showRawData,
     showAnalyzedData |-> showAnalyzedData,
     showAlleles |-> showAlleles,
     peakThreshold |-> peakThreshold,
     zoomRegion |-> zoomRegion]

\* the viewer is rendered for sample s1 and the effect calls loadData:
\* setLoading(true); setError(null); the metadata fetch leaves
LoadData ==
    /\ ~mounted
    /\ pc = "idle"
    /\ mounted' = TRUE
    /\ inst' = inst + 1
    /\ sampleId' = "s1"
    /\ FreshState
    /\ Quiet
    /\ lastSaved' = NoSave
    /\ cleanSave' = 0
    /\ bufferOf' = ""
    /\ roundTrip' = 0
    /\ lastOp' = Op("loadData")
    /\ pc' = "metadata"
    /\ fetchLog' = <<Req("metadata", "")>>
    /\ traces' = <<>>
    /\ layout' = NoLayout
    /\ UNCHANGED <<loads, saves, loadsLeft, savesLeft, editsLeft, viewFlags,
                   data, channelsWithData, cursor>>

\* the end of loadData and the render it causes: the assembled channels
\* replace data.analysis.channels, setSampleData, setEditedAlleles; a body
\* without analysis throws on the way and the catch runs setError;
\* finally setLoading(false)
Finish(d, cwd) ==
    IF Has(d, "analysis")
    THEN LET model == IF Len(cwd) > 0
                      THEN ("channels" :> cwd) @@ d.analysis
                      ELSE d.analysis
             sd == [loaded |-> TRUE, data |-> model]
         IN  /\ sampleData' = sd
             /\ editedAlleles' = AllelesOrEmpty(model)
             /\ loading' = FALSE
             /\ bufferOf' = sampleId
             /\ emitted' = 0
             /\ traces' = Render(sd, FALSE, error, View)
             /\ layout' = RenderLayout(sd, FALSE, error, View)
             /\ UNCHANGED error
    ELSE /\ sampleData' = NullData
         /\ error' = "Cannot read properties of undefined"
         /\ loading' = FALSE
         /\ emitted' = 1
         /\ traces' = <<>>
         /\ layout' = NoLayout
         /\ UNCHANGED <<editedAlleles, bufferOf>>

\* from the answer of the bulk fetch or of a channel fetch to the next
\* await of the per-channel loop, or to the end of loadData
Proceed(adv, log) ==
    /\ channelsWithData' = adv.cwd
    /\ cursor' = adv.cursor
    /\ IF adv.cursor > 0
       THEN /\ pc' = "channel"
            /\ fetchLog' =
                 Append(log, Req("channel",
                                 MetaChannels(data)[adv.cursor].key))
            /\ emitted' = 0
            /\ UNCHANGED <<sampleData, loading, error, editedAlleles,
                           bufferOf, traces, layout>>
       ELSE /\ pc' = "done"
            /\ fetchLog' = log
            /\ Finish(data, adv.cwd)

\* the metadata fetch is answered: a rejection throws to the outer catch;
\* a 2xx body is parsed and the bulk fetch leaves
MetadataResponse(r) ==
    /\ pc = "metadata"
    /\ IF r.ok
       THEN /\ data' = r.body
            /\ pc' = "bulk"
            /\ fetchLog' = Append(Answered(fetchLog, "ok", 0),
                                  Req("raw_data", ""))
            /\ emitted' = 0
            /\ UNCHANGED <<sampleData, loading, error, traces, layout>>
       ELSE /\ error' = "Error cargando datos"
            /\ loading' = FALSE
            /\ pc' = "done"
            /\ fetchLog' = Answered(fetchLog, "failed", 0)
            /\ emitted' = 1
            /\ traces' = <<>>
            /\ layout' = NoLayout
            /\ UNCHANGED <<sampleData, data>>
    /\ lastOp' = Op("metadataResponse")
    /\ UNCHANGED <<editedAlleles, bufferOf, channelsWithData, cursor>>
    /\ UNCHANGED loadFrame

\* the bulk fetch is answered: a 2xx body with channels fills
\* channelsWithData; a rejection is caught and logged.  With no channel
\* assembled the per-channel loop starts
BulkResponse(r) ==
    /\ pc = "bulk"
    /\ LET cwd == IF r.ok THEN FromBulk(r.body) ELSE <<>>
           log == Answered(fetchLog, IF r.ok THEN "ok" ELSE "failed",
                           Len(cwd))
       IN  IF Len(cwd) = 0
           THEN Proceed(Advance(MetaChannels(data), cwd, 1), log)
           ELSE Proceed([cwd |-> cwd, cursor |-> 0], log)
    /\ lastOp' = Op("bulkResponse")
    /\ UNCHANGED data
    /\ UNCHANGED loadFrame

\* the fetch of the channel in turn is answered: a 2xx body is assembled
\* with the channel's metadata, a rejection leaves the metadata alone
ChannelResponse ==
    /\ pc = "channel"
    /\ LET e == MetaChannels(data)[cursor] IN
       \E r \in Responses(ChannelBodies(e.key)) :
         LET val == IF r.ok THEN AssembleChannel(e.val, r.body) ELSE e.val
             cwd == Put(channelsWithData, e.key, val)
             log == Answered(fetchLog, IF r.ok THEN "ok" ELSE "failed",
                             IF r.ok THEN 1 ELSE 0)
         IN  Proceed(Advance(MetaChannels(data), cwd, cursor + 1), log)
    /\ lastOp' = Op("channelResponse")
    /\ UNCHANGED data
    /\ UNCHANGED loadFrame

\* ------------------------------------------------ the display controls

\* what a display control leaves alone
viewFrame == <<mounted, inst, sampleId, viewState, loads, saves, loadsLeft,
               savesLeft, editsLeft, lastSaved, bufferOf, loadLocals>>

\* the state setters of a display handler have run and the component is
\* rendered with the display state v
ShowView(v) ==
    /\ selectedChannel' = v.selectedChannel
    /\ selectedMarker' = v.selectedMarker
    /\ showPeaks' = v.showPeaks
    /\ showSizeStandard' = v.showSizeStandard
    /\ showRawData' = v.showRawData
    /\ showAnalyzedData' = v.showAnalyzedData
    /\ showAlleles' = v.showAlleles
    /\ peakThreshold' = v.peakThreshold
    /\ zoomRegion' = v.zoomRegion
    /\ traces' = Render(sampleData, loading, error, v)
    /\ layout' = RenderLayout(sampleData, loading, error, v)
    /\ Quiet
    /\ cleanSave' = 0
    /\ roundTrip' = 0
    /\ lastOp' = Op("render")
    /\ UNCHANGED viewFrame

\* the items of the channel select
ChannelChoices ==
    {"all"} \cup
    (IF sampleData.loaded /\ Has(sampleData.data, "channels")
     THEN {sampleData.data.channels[i].key :
             i \in DOMAIN sampleData.data.channels}
     ELSE {})

SetSelectedChannel(c) ==
    /\ Visible
    /\ c \in ChannelChoices
    /\ ShowView([View EXCEPT !.selectedChannel = c])

SetSelectedMarker(m) ==
    /\ Visible
    /\ ShowView([View EXCEPT !.selectedMarker = m])

\* the switch "Picos"
SetShowPeaks ==
    /\ Visible
    /\ ShowView([View EXCEPT !.showPeaks = ~showPeaks])

\* the switch "LIZ-500"
SetShowSizeStandard ==
    /\ Visible
    /\ ShowView([View EXCEPT !.showSizeStandard = ~showSizeStandard])

\* a handler that turns analyzed on or off and leaves raw as it is
RawAfterToggleKept(v) == showRawData

\* setShowRawData(v === 'raw')
RawAfterToggle(v) == v = "raw"

\* setShowAnalyzedData(v === 'analyzed')
AnalyzedAfterToggle(v) == v = "analyzed"

\* onChange of the raw/analyzed button group
ToggleSignal(v) ==
    /\ Visible
    /\ ShowView([View EXCEPT !.showRawData = RawAfterToggle(v),
                             !.showAnalyzedData = AnalyzedAfterToggle(v)])

\* the button "Mostrar alelos"
ToggleShowAlleles ==
    /\ Visible
    /\ ShowView([View EXCEPT !.showAlleles = ~showAlleles])

\* the threshold slider, shown while peaks are
SetPeakThreshold(t) ==
    /\ Visible
    /\ showPeaks
    /\ ShowView([View EXCEPT !.peakThreshold = t])

\* the button "Resetear vista": setSelectedMarker(''); setZoomRegion(null)
ResetView ==
    /\ Visible
    /\ ShowView([View EXCEPT !.selectedMarker = "", !.zoomRegion = NoRange])

\* one viewer: its load, await by await, and the display controls
NextPlot ==
    \/ LoadData
    \/ \E r \in Responses(MetadataBodies) : MetadataResponse(r)
    \/ \E r \in Responses(BulkBodies) : BulkResponse(r)
    \/ ChannelResponse
    \/ \E c \in {"all", "channel_1", "channel_2", "channel_4"} :
         SetSelectedChannel(c)
    \/ \E m \in STR_MARKERS \cup {""} : SetSelectedMarker(m)
    \/ SetShowPeaks
    \/ SetShowSizeStandard
    \/ \E v \in ToggleValues : ToggleSignal(v)
    \/ ToggleShowAlleles
    \/ \E t \in Thresholds : SetPeakThreshold(t)
    \/ ResetView

SpecPlot == Init /\ [][NextPlot]_vars

Next ==
    \/ \E s \in Samples : Mount(s)
    \/ \E s \in Samples : ChangeSample(s)
    \/ Unmount
    \/ \E l \in loads : \E a \in Analyses(l.sample) : LoadOk(l, a)
    \/ \E l \in loads : LoadFail(l)
    \/ \E l \in loads : LoadNoAnalysis(l)
    \/ EditStart
    \/ Cancel
    \/ \E m \in STR_MARKERS : \E n \in AlleleNums : \E v \in TypedValues :
         HandleAlleleChange(m, n, v)
    \/ HandleSaveAlleles
    \/ \E s \in saves : SaveOk(s)
    \/ \E s \in saves : SaveFail(s)

Spec == Init /\ [][Next]_vars

\* the viewer as the Dashboard dialog hosts it: the sampleId prop of a
\* mounted viewer never changes, the dialog is closed and opened again
NextDialog ==
    \/ \E s \in Samples : Mount(s)
    \/ Unmount
    \/ \E l \in loads : \E a \in Analyses(l.sample) : LoadOk(l, a)
    \/ \E l \in loads : LoadFail(l)
    \/ \E l \in loads : LoadNoAnalysis(l)
    \/ EditStart
    \/ Cancel
    \/ \E m \in STR_MARKERS : \E n \in AlleleNums : \E v \in TypedValues :
         HandleAlleleChange(m, n, v)
    \/ HandleSaveAlleles
    \/ \E s \in saves : SaveOk(s)
    \/ \E s \in saves : SaveFail(s)

SpecDialog == Init /\ [][NextDialog]_vars

\* one editing session: a viewer is mounted and loaded once, and the user
\* edits and cancels
InitEdit == Start(MaxLoads, MaxSaves, SessionEdits)

NextEdit ==
    \/ \E s \in Samples : Mount(s)
    \/ \E l \in loads : \E a \in Analyses(l.sample) : LoadOk(l, a)
    \/ EditStart
    \/ Cancel
    \/ \E m \in STR_MARKERS : \E n \in AlleleNums : \E v \in TypedValues :
         HandleAlleleChange(m, n, v)

SpecEdit == InitEdit /\ [][NextEdit]_vars

\* opening, switching and closing the viewer while loads and saves of an
\* unedited buffer are in flight
InitClose == Start(MaxLoads, MaxSaves, 0)

NextClose ==
    \/ \E s \in Samples : Mount(s)
    \/ \E s \in Samples : ChangeSample(s)
    \/ Unmount
    \/ \E l \in loads : \E a \in Analyses(l.sample) : LoadOk(l, a)
    \/ \E l \in loads : LoadFail(l)
    \/ \E l \in loads : LoadNoAnalysis(l)
    \/ EditStart
    \/ Cancel
    \/ HandleSaveAlleles
    \/ \E s \in saves : SaveOk(s)
    \/ \E s \in saves : SaveFail(s)

SpecClose == InitClose /\ [][NextClose]_vars

\* one viewer, loaded once: the user edits, cancels and saves, and the
\* PUTs are accepted or rejected
InitSave == Start(1, MaxSaves, MaxEdits)

NextSave ==
    \/ \E s \in Samples : Mount(s)
    \/ \E l \in loads : \E a \in Analyses(l.sample) : LoadOk(l, a)
    \/ EditStart
    \/ Cancel
    \/ \E m \in STR_MARKERS : \E n \in AlleleNums : \E v \in TypedValues :
         HandleAlleleChange(m, n, v)
    \/ HandleSaveAlleles
    \/ \E s \in saves : SaveOk(s)
    \/ \E s \in saves : SaveFail(s)

SpecSave == InitSave /\ [][NextSave]_vars

\* ------------------------------------------------------------ properties

\* the editor states of the design, read off the component's state: a PUT
\* of the mounted instance in flight is Saving
InSaving == mounted /\ \E s \in saves : s.inst = inst

\* the requests a step has completed
LoadsDone == loads \ loads'
SavesDone == saves \ saves'

C2_SavedBufferIsBaseline ==
    /\ (lastOp.op = "saveOk" /\ lastSaved.sent)
         => (~editMode /\ ~unsavedChanges)
    /\ (lastOp.op = "cancel" /\ lastSaved.sent)
         => editedAlleles = lastSaved.body

\* C3: once no load of the mounted viewer is in flight and none has failed,
\* the sample model and the edit buffer are those of the requested sample.
C3_StaleLoadDiscarded ==
    (/\ mounted
     /\ \A l \in loads : l.inst # inst
     /\ error = ""
     /\ sampleData.loaded)
    => (sampleData.data.sample = sampleId /\ bufferOf = sampleId)

\* C4: a handleAlleleChange call made outside Editing state (in Viewing, or
\* in Saving) raises and changes neither the buffer nor the dirty flag.
C4_SetAlleleOnlyInEditing ==
    [][(lastOp'.op = "handleAlleleChange" /\ (~editMode \/ InSaving))
       => (/\ raised'
           /\ editedAlleles' = editedAlleles
           /\ unsavedChanges' = unsavedChanges)]_vars

\* C5: while a PUT is in flight no handleAlleleChange takes effect, and when
\* the PUT is accepted the buffer equals the body that was transmitted.
C5_BufferFrozenWhileSaving ==
    [][/\ (lastOp'.op = "handleAlleleChange" /\ InSaving)
            => editedAlleles' = editedAlleles
       /\ \A s \in SavesDone :
            (lastOp'.op = "saveOk" /\ mounted /\ s.inst = inst)
            => editedAlleles' = s.body]_vars

\* C6: a rejected save of the mounted viewer shows the user exactly one
\* failure notice.
C6_RejectedSaveNoticeOnce ==
    [][(lastOp'.op = "saveFail"
          /\ \E s \in SavesDone : mounted /\ s.inst = inst)
       => emitted' = 1]_vars

C9_SetAlleleFrame ==
    [][lastOp'.op = "handleAlleleChange"
       => LET m == lastOp'.marker
              k == SlotKey(lastOp'.slot)
              old == AlleleData(editedAlleles, m)
          IN  /\ unsavedChanges'
              /\ DOMAIN editedAlleles' = (DOMAIN editedAlleles) \cup {m}
              /\ \A x \in (DOMAIN editedAlleles) \ {m} :
                    editedAlleles'[x] = editedAlleles[x]
              /\ DOMAIN editedAlleles'[m] = (DOMAIN old) \cup {k}
              /\ editedAlleles'[m][k] = lastOp'.value
              /\ \A f \in (DOMAIN old) \ {k} :
                    editedAlleles'[m][f] = old[f]]_vars

\* an entry was created for a marker the buffer did not have, next to the
\* untouched entries of the loaded markers
C9_Witness ==
    /\ lastOp.op = "handleAlleleChange"
    /\ lastOp.marker = "vWA"
    /\ DOMAIN editedAlleles = {"D3S1358", "AMEL", "vWA"}
    /\ DOMAIN editedAlleles["vWA"] = {SlotKey(lastOp.slot)}
    /\ editedAlleles["D3S1358"] = AllelesS1["D3S1358"]
    /\ editedAlleles["AMEL"] = AllelesS1["AMEL"]

\* the allele slots of marker m that hold a non-empty label
CalledSlots(buf, m) ==
    {k \in {"allele1", "allele2"} :
        m \in DOMAIN buf /\ k \in DOMAIN buf[m] /\ buf[m][k] # ""}

\* C10: the status shown for a marker is complete with two non-empty
\* slots, partial with one, uncalled with none (an absent marker
\* included); after set(m,1,"12"); set(m,1,"") with slot 2 empty it is
\* uncalled.
C10_StatusDerived ==
    /\ \A m \in STR_MARKERS :
         Status(editedAlleles, m) =
           CASE Cardinality(CalledSlots(editedAlleles, m)) = 2 -> "Completo"
             [] Cardinality(CalledSlots(editedAlleles, m)) = 1 -> "Parcial"
             [] OTHER -> "Sin llamar"
    /\ (roundTrip = 2
          /\ "allele2" \notin CalledSlots(editedAlleles, lastOp.marker))
         => Status(editedAlleles, lastOp.marker) = "Sin llamar"

C10_Witness ==
    /\ roundTrip = 2
    /\ lastOp.marker = "vWA"
    /\ "vWA" \in DOMAIN editedAlleles
    /\ Status(editedAlleles, "vWA") = "Sin llamar"

\* C11: the PUT a save request sends carries the whole buffer of that
\* moment: every marker the buffer has, edited or not, with every field
\* of its entry.
C11_SaveSendsWholeBuffer ==
    [][lastOp'.op = "handleSaveAlleles"
       => \E s \in saves' \ saves :
            /\ DOMAIN s.body = DOMAIN editedAlleles
            /\ \A m \in DOMAIN editedAlleles : s.body[m] = editedAlleles[m]
            /\ s.sample = sampleId]_vars

\* a save was requested after an edit of vWA: its body holds vWA next to
\* the unedited D3S1358 and the locus AMEL that is no row of the table
C11_Witness ==
    /\ lastOp.op = "handleSaveAlleles"
    /\ unsavedChanges
    /\ \E s \in saves :
         /\ s.id = cleanSave
         /\ DOMAIN s.body = {"D3S1358", "AMEL", "vWA"}
         /\ s.body["AMEL"] = AllelesS1["AMEL"]
         /\ s.body["D3S1358"] = AllelesS1["D3S1358"]

\* C12: edit-start, handleAlleleChange, cancel and a rejected save leave
\* the sample model, and with it the baseline sampleData.alleles, as it
\* was.
C12_BaselineUntouched ==
    [][lastOp'.op \in {"editStart", "handleAlleleChange", "cancel",
                       "saveFail"}
       => /\ sampleData' = sampleData
          /\ Baseline(sampleData') = Baseline(sampleData)]_vars

\* a save of an edited buffer was rejected and the baseline is still what
\* the service delivered, while the buffer differs from it
C12_Witness ==
    /\ lastOp.op = "saveFail"
    /\ mounted
    /\ unsavedChanges
    /\ sampleData.loaded
    /\ Baseline(sampleData) = AllelesS1
    /\ editedAlleles # AllelesS1

\* the plot is on screen: the load has ended well and the model has
\* channels
Plotted ==
    Visible /\ sampleData.loaded /\ Has(sampleData.data, "channels")

\* the step of the layer algorithm a layer belongs to: signal lines,
\* peak markers, size standard, alleles, region highlight
Rank(kind) ==
    CASE kind \in {"raw", "analyzed"} -> 1
      [] kind = "peaks" -> 2
      [] kind = "liz" -> 3
      [] kind = "alleles" -> 4
      [] OTHER -> 5

\* the layers of a kind that a layer list holds for key k, by index
LayersOf(ts, kinds, k) ==
    {j \in DOMAIN ts : ts[j].kind \in kinds /\ ts[j].key = k}

\* C13: in the layer list no layer of a later step comes before a layer
\* of an earlier step: all signal layers, then all peak layers, then the
\* size standard, then the alleles, then the region highlight.
C13_StepOrder ==
    \A i, j \in DOMAIN traces :
        i < j => Rank(traces[i].kind) <= Rank(traces[j].kind)

\* C14: with peaks shown, every channel that passes the channel filter,
\* has a peak list and has non-empty raw data has exactly one peak layer,
\* holding exactly its peaks of height >= threshold in their order.
C14_PeakLayerPerChannel ==
    (Plotted /\ showPeaks) =>
    \A i \in DOMAIN sampleData.data.channels :
        LET e == sampleData.data.channels[i]
            want == IF HasPeaks(sampleData.data, e.key)
                    THEN SelectSeq(sampleData.data.peaks[e.key],
                                   LAMBDA p : p.height >= peakThreshold)
                    ELSE <<>>
            got == LayersOf(traces, {"peaks"}, e.key)
        IN  (/\ selectedChannel \in {"all", e.key}
             /\ HasPeaks(sampleData.data, e.key)
             /\ Has(e.val, "raw_data")
             /\ Len(e.val.raw_data) > 0)
            => /\ Cardinality(got) = 1
               /\ \A j \in got :
                    /\ traces[j].x = [n \in DOMAIN want |-> want[n].position]
                    /\ traces[j].text = [n \in DOMAIN want |-> want[n].height]

\* the peaks (position and height) in the peak layers of channel k
PeakPoints(ts, k) ==
    UNION {{<<ts[j].x[n], ts[j].text[n]>> : n \in DOMAIN ts[j].x} :
             j \in LayersOf(ts, {"peaks"}, k)}

\* the layer list of the model on screen had the threshold been t
TracesAt(t) == prepareTraces(sampleData.data, [View EXCEPT !.peakThreshold = t])

\* C15: for the model and display state on screen and thresholds
\* t1 < t2, the peaks of every channel's peak layer built with t2 are
\* among those built with t1; the list on screen is the one built with
\* the threshold set.
C15_FilterMonotonic ==
    Plotted =>
    /\ traces = TracesAt(peakThreshold)
    /\ \A t1, t2 \in Thresholds :
         t1 < t2 =>
         \A i \in DOMAIN sampleData.data.channels :
            PeakPoints(TracesAt(t2), sampleData.data.channels[i].key)
            \subseteq
            PeakPoints(TracesAt(t1), sampleData.data.channels[i].key)

\* the threshold was raised over the smaller peak of channel_1: one of
\* the two peaks a threshold of 10 shows is left
C15_Witness ==
    /\ Plotted
    /\ lastOp.op = "render"
    /\ peakThreshold = 50
    /\ PeakPoints(traces, "channel_1") = {<<2, 50>>}
    /\ PeakPoints(TracesAt(10), "channel_1") = {<<2, 50>>, <<4, 10>>}

\* a trace takes part in the auto-ranging of the axes unless it carries
\* visible: false
Autoscaled(t) == ~(Has(t, "visible") /\ t.visible = FALSE)

\* C16: with a catalog marker selected the layer list of a model with
\* channels holds exactly one region-highlight layer, as its last
\* element, and that layer takes no part in axis auto-scaling; with no
\* marker selected it holds none.
C16_RegionLayerLastInformational ==
    Plotted =>
    LET regions == {j \in DOMAIN traces : traces[j].kind = "region"}
    IN  /\ selectedMarker \in STR_MARKERS
             => /\ Cardinality(regions) = 1
                /\ Len(traces) \in regions
                /\ ~Autoscaled(traces[Len(traces)])
        /\ selectedMarker = "" => regions = {}

\* the channels whose per-channel fetch was rejected
FailedChannels ==
    {fetchLog[i].key : i \in {n \in DOMAIN fetchLog :
                                 /\ fetchLog[n].req = "channel"
                                 /\ fetchLog[n].outcome = "failed"}}

\* C17: a load whose metadata fetch was answered 2xx ends with a model
\* and no error, whatever the bulk fetch and the channel fetches gave;
\* a channel whose fetch was rejected is in the model with its metadata
\* and without signal arrays, and has no signal layer.
C17_MetadataOkLoadCompletes ==
    (pc = "done" /\ fetchLog[1].outcome = "ok") =>
    /\ ~loading
    /\ error = ""
    /\ sampleData.loaded
    /\ \A k \in FailedChannels :
         /\ Has(sampleData.data, "channels")
         /\ HasKey(sampleData.data.channels, k)
         /\ Get(sampleData.data.channels, k) = Get(MetaChannels(data), k)
         /\ ~HasSignal(Get(sampleData.data.channels, k))
         /\ LayersOf(traces, {"raw", "analyzed"}, k) = {}

\* C18: the requests of a load are the metadata fetch, then the bulk
\* fetch, then channel fetches: a channel fetch leaves only once the bulk
\* fetch is answered and has put no channel into channelsWithData, once
\* the channel fetch before it is answered, once per channel, and only
\* for a channel whose metadata sets has_raw_data or has_analyzed_data.
C18_FetchOrder ==
    LET n == Len(fetchLog) IN
    /\ n >= 1 => fetchLog[1].req = "metadata"
    /\ n >= 2 => (fetchLog[2].req = "raw_data" /\ fetchLog[1].outcome = "ok")
    /\ \A i \in 3..n :
         LET info == Get(MetaChannels(data), fetchLog[i].key) IN
         /\ fetchLog[i].req = "channel"
         /\ fetchLog[i - 1].outcome # "pending"
         /\ fetchLog[2].yield = 0
         /\ HasKey(MetaChannels(data), fetchLog[i].key)
         /\ Flag(info, "has_raw_data") \/ Flag(info, "has_analyzed_data")
         /\ \A j \in 3..n : j # i => fetchLog[j].key # fetchLog[i].key

\* the bulk fetch gave nothing and the load ended after fetching the two
\* channels that report data, and not channel_2, which reports none
C18_Witness ==
    /\ pc = "done"
    /\ Len(fetchLog) = 4
    /\ fetchLog[2].outcome = "failed"
    /\ fetchLog[3].key = "channel_1"
    /\ fetchLog[4].key = "channel_4"
    /\ sampleData.loaded
    /\ HasKey(sampleData.data.channels, "channel_2")

\* C19: raw and analyzed are never both shown.
C19_RawAnalyzedExclusive == ~(showRawData /\ showAnalyzedData)

\* the button group was switched to analyzed: the analyzed line of
\* channel_1 is drawn and its raw line is not
C19_Witness ==
    /\ Plotted
    /\ lastOp.op = "render"
    /\ showAnalyzedData
    /\ ~showRawData
    /\ LayersOf(traces, {"analyzed"}, "channel_1") # {}
    /\ LayersOf(traces, {"raw"}, "channel_1") = {}

\* the y-values of the layers before index n
ValuesBefore(ts, n) ==
    UNION {{ts[j].y[i] : i \in DOMAIN ts[j].y} : j \in 1..(n - 1)}

\* C20: the region-highlight layer spans [0, 1.1 * maxY] with maxY the
\* greatest y-value of the layers before it, and [0, 1.1 * c] with c
\* finite and positive when no layer comes before it.
C20_RegionExtent ==
    (Plotted /\ selectedMarker \in STR_MARKERS) =>
    LET n == Len(traces)
        y == traces[n].y
        ys == ValuesBefore(traces, n)
    IN  /\ traces[n].kind = "region"
        /\ y[1] = Finite(0)
        /\ y[4] = Finite(0)
        /\ y[2] = y[3]
        /\ ~y[2].inf
        /\ IF n = 1
           THEN y[2].tenths > 0
           ELSE /\ ys # {}
                /\ \E m \in ys :
                     /\ \A v \in ys : v <= m
                     /\ y[2].tenths = 11 * m

\* C21: a channel with a zero-length signal array has no layer for that
\* array: no analyzed line for analyzed_data = [], no raw line for
\* raw_data = [], whatever the display flags.
C21_EmptySignalNoLayer ==
    Plotted =>
    \A i \in DOMAIN sampleData.data.channels :
        LET e == sampleData.data.channels[i] IN
        /\ (Has(e.val, "analyzed_data") /\ Len(e.val.analyzed_data) = 0)
             => LayersOf(traces, {"analyzed"}, e.key) = {}
        /\ (Has(e.val, "raw_data") /\ Len(e.val.raw_data) = 0)
             => LayersOf(traces, {"raw"}, e.key) = {}

\* the height a point at position pos shows when read off arr: the
\* signal value there, 0 off the array
Clamped(arr, pos) ==
    IF pos >= 0 /\ pos < Len(arr) THEN arr[pos + 1] ELSE 0

\* C22: every point of a peak, size-standard or allele layer shows the
\* signal value at its position, and 0 when the position lies off the
\* signal array it indexes; the same holds for the peak heights the
\* variant viewer computes.
C22_PeakOffArrayIsZero ==
    Plotted =>
    /\ \A j \in DOMAIN traces :
         traces[j].kind \in {"peaks", "liz", "alleles"} =>
         \E i \in DOMAIN sampleData.data.channels :
            LET e == sampleData.data.channels[i]
                arr == Signal(e.val)
            IN  /\ traces[j].kind \in {"peaks", "liz"} => e.key = traces[j].key
                /\ \A n \in DOMAIN traces[j].x :
                     traces[j].y[n] = Clamped(arr, traces[j].x[n])
    /\ \A i \in DOMAIN sampleData.data.channels :
         LET e == sampleData.data.channels[i]
             arr == Signal(e.val)
         IN  (HasPeaks(sampleData.data, e.key) /\ HasSignal(e.val)) =>
             \A n \in DOMAIN sampleData.data.peaks[e.key] :
                LET pos == sampleData.data.peaks[e.key][n].position
                IN  VariantAt(arr, pos) =
                      [defined |-> TRUE, value |-> Clamped(arr, pos)]

\* the label of the i-th size-standard peak: the i-th expected size,
\* beyond the list the size resolved for the peak, else '?'
SizeLabel(ss, i) ==
    IF Has(ss, "expected_sizes") /\ i <= Len(ss.expected_sizes)
    THEN ToString(ss.expected_sizes[i]) \o " bp"
    ELSE IF Has(ss.peaks[i], "size")
    THEN ToFixed1(ss.peaks[i].size) \o " bp"
    ELSE "? bp"

\* C23: with the size-standard display on and a size standard with peaks
\* in the model, the figure has exactly one size-standard layer, whatever
\* the keys and colours of the channels, with one point per peak, the
\* i-th point labelled with the i-th expected size, or beyond that list
\* with the peak's resolved size or '?'.
C23_OneSizeStandardLayer ==
    (/\ Plotted
     /\ showSizeStandard
     /\ Has(sampleData.data, "size_standard")
     /\ Has(sampleData.data.size_standard, "peaks")
     /\ Len(sampleData.data.size_standard.peaks) > 0) =>
    LET ss == sampleData.data.size_standard
        liz == {j \in DOMAIN traces : traces[j].kind = "liz"}
    IN  /\ Cardinality(liz) = 1
        /\ \A j \in liz :
             /\ Len(traces[j].x) = Len(ss.peaks)
             /\ \A i \in DOMAIN traces[j].text :
                  traces[j].text[i] = SizeLabel(ss, i)

\* a channel has displayable data: the signal the overlay reads off it is
\* a non-empty array
Displayable(cd) == HasSignal(cd) /\ Len(Signal(cd)) > 0

\* the channel an allele call is to be drawn on, by index: the marker's
\* defined channel if it has displayable data, else the first channel
\* that has; 0 if none has
AlleleChannel(sd, locus) ==
    LET shown == {i \in DOMAIN sd.channels : Displayable(sd.channels[i].val)}
        own == {i \in shown :
                  /\ locus \in STR_MARKERS
                  /\ sd.channels[i].key = MarkerInfo(locus).channelKey}
        from == IF own # {} THEN own ELSE shown
    IN  IF from = {} THEN 0 ELSE CHOOSE i \in from : \A j \in from : i <= j

\* C24: with the allele overlay on, every allele call that has a peak is
\* drawn once, its heights read off the marker's defined channel if that
\* has displayable data and off the first channel with displayable data
\* otherwise, so it is drawn whenever some channel has displayable data.
C24_AlleleLayerPerCalledMarker ==
    (Plotted /\ showAlleles /\ Has(sampleData.data, "alleles")) =>
    \A locus \in DOMAIN sampleData.data.alleles :
        LET sd == sampleData.data
            alleleData == sd.alleles[locus]
            c == AlleleChannel(sd, locus)
            drawn == LayersOf(traces, {"alleles"}, locus)
        IN  (Has(alleleData, "peaks") /\ Len(alleleData.peaks) > 0 /\ c # 0)
            => /\ Cardinality(drawn) = 1
               /\ \A j \in drawn :
                    /\ Len(traces[j].x) = Len(alleleData.peaks)
                    /\ \A n \in DOMAIN traces[j].x :
                         /\ traces[j].x[n] = alleleData.peaks[n].position
                         /\ traces[j].y[n] =
                              Clamped(Signal(sd.channels[c].val),
                                      traces[j].x[n])

\* values of zoomRegion: none, or a range of scans
ZoomRegions == {NoRange, Range(120, 130)}

\* C25: the x axis is in base pairs and ranged to the selected marker's
\* range widened by 20 on each side exactly when the model has a
\* calibration and a catalog marker is selected, whatever the zoom
\* override; otherwise it is in scans and its range is the zoom override
\* if one is set and automatic if none is.
C25_AxisFollowsCalibration ==
    Plotted =>
    LET sd == sampleData.data
        focus == /\ Has(sd, "size_standard")
                 /\ Has(sd.size_standard, "calibration")
                 /\ selectedMarker \in STR_MARKERS
    IN  /\ layout = getLayout(sd, View)
        /\ \A z \in ZoomRegions :
             LET l == getLayout(sd, [View EXCEPT !.zoomRegion = z])
             IN  IF focus
                 THEN /\ l.xTitle = "Tamaño (bp)"
                      /\ l.xRange =
                           Range(MarkerInfo(selectedMarker).range[1] - 20,
                                 MarkerInfo(selectedMarker).range[2] + 20)
                 ELSE /\ l.xTitle = "Posición (scans)"
                      /\ l.xRange = z

\* a calibrated model is on screen with vWA selected: the axis runs from
\* 130 to 220 base pairs
C25_Witness ==
    /\ Plotted
    /\ HasCalibration(sampleData.data)
    /\ selectedMarker = "vWA"
    /\ layout = [xTitle |-> "Tamaño (bp)", xRange |-> Range(130, 220)]

\* C26: while the editor is in edit mode with unsaved changes, the
\* completion of a load, a stale one included, leaves the edit buffer as
\* it is.
C26_LoadKeepsDirtyBuffer ==
    [][(lastOp'.op = "loadOk" /\ mounted /\ editMode /\ unsavedChanges)
         => editedAlleles' = editedAlleles]_vars

\* C27: the buffer a PUT carries was initialised from a load of the
\* sample the PUT is addressed to.
C27_PutBufferOfSameSample ==
    [][lastOp'.op = "handleSaveAlleles" =>
         \A s \in saves' \ saves : bufferOf = s.sample]_vars

\* the PUTs of the mounted viewer that await their response
SavesInFlight == {s \in saves : Live(s)}

\* C28: at most one PUT of the viewer is in flight: a save request made
\* while an earlier save has not completed sends no second PUT.
C28_OneSaveInFlight == Cardinality(SavesInFlight) <= 1

\* C29: the unsaved-changes flag is set only in edit mode; in any viewing
\* state, after a cancel too, it is clear.
C29_UnsavedOnlyInEditMode == mounted => (unsavedChanges => editMode)

\* C30: when the load started for the current sampleId completes, the
\* editor is viewing, the unsaved flag is clear and the buffer holds the
\* alleles of the loaded sample, whatever the edit mode and the flag were
\* before.
C30_SampleChangeResetsEditor ==
    [][(/\ lastOp'.op = "loadOk"
        /\ \E l \in loads \ loads' : Live(l) /\ l.sample = sampleId)
         => /\ ~editMode'
            /\ ~unsavedChanges'
            /\ sampleData'.loaded
            /\ editedAlleles' = AllelesOrEmpty(sampleData'.data)]_vars

====
